---- MODULE Spec2Model ----
(***************************************************************************)
(* A model of the AI event scanner backend (src/backend/app): the event    *)
(* discovery engine, the Perplexity client, the session manager and the    *)
(* events API handlers, over a relational store of Event, UserSession,     *)
(* WatchedEvent and EventDiscoveryLog rows.                                *)
(*                                                                         *)
(* Requests are served one at a time.  A discovery request is a sequence   *)
(* of steps (one per external call and one per stored candidate); every    *)
(* other request is one action.  The store is the relational schema of     *)
(* models.py; opening a database session (database.py) is taken to         *)
(* succeed.                                                                *)
(***************************************************************************)
EXTENDS Integers, Sequences, FiniteSets, TLC

(***************************************************************************)
(* Bounds of the model.                                                    *)
(***************************************************************************)
MaxBatch == 2
\* candidates that the searches of one discovery run return in total

TicksPerDay == 2
\* resolution of an instant: tick 0 of a day is midnight

(***************************************************************************)
(* Program constants.                                                      *)
(***************************************************************************)
NumQueries == 8
RelevanceGate == 5
DefaultMinRelevance == 5
SessionLifetimeDays == 30
MinYearApi == 2024
MaxYearApi == 2030
EpochYear == MinYearApi
\* instants are counted from the first instant of EpochYear

supported_platforms == {"luma", "meetup"}
event_categories == <<"Conference", "Workshop", "Networking", "Talk", "Hackathon", "Other">>

Range(s) == {s[i] : i \in DOMAIN s}

(***************************************************************************)
(* datetime: the calendar, and instants as ticks since the epoch.          *)
(***************************************************************************)
IsLeap(y) == (y % 4 = 0 /\ y % 100 # 0) \/ y % 400 = 0

DaysInMonth(y, m) ==
    IF m = 2 THEN (IF IsLeap(y) THEN 29 ELSE 28)
    ELSE IF m \in {4, 6, 9, 11} THEN 30 ELSE 31

DaysInYear(y) == IF IsLeap(y) THEN 366 ELSE 365

RECURSIVE DaysBeforeYear(_)
DaysBeforeYear(y) == IF y <= EpochYear THEN 0 ELSE DaysBeforeYear(y - 1) + DaysInYear(y - 1)

RECURSIVE DaysBeforeMonth(_, _)
DaysBeforeMonth(y, m) == IF m <= 1 THEN 0 ELSE DaysBeforeMonth(y, m - 1) + DaysInMonth(y, m - 1)

\* datetime(y, m, d) is an error outside the calendar
DatetimeValid(y, m, d) ==
    /\ y \in 1..9999
    /\ m \in 1..12
    /\ d \in 1..DaysInMonth(y, m)

\* datetime(y, m, d): midnight of that day
Datetime(y, m, d) == (DaysBeforeYear(y) + DaysBeforeMonth(y, m) + (d - 1)) * TicksPerDay

\* datetime(y, m, d) at tick h of the day
Instant(y, m, d, h) == Datetime(y, m, d) + h

\* timedelta(days=n)
Timedelta(n) == n * TicksPerDay

RECURSIVE YearOfDay(_, _)
YearOfDay(day, y) == IF day < DaysInYear(y) THEN y ELSE YearOfDay(day - DaysInYear(y), y + 1)

RECURSIVE MonthOfDay(_, _, _)
MonthOfDay(day, y, m) ==
    IF day < DaysInMonth(y, m) THEN m ELSE MonthOfDay(day - DaysInMonth(y, m), y, m + 1)

\* .year and .month of an instant
YearOf(t) == YearOfDay(t \div TicksPerDay, EpochYear)
MonthOf(t) ==
    LET y == YearOf(t)
    IN  MonthOfDay((t \div TicksPerDay) - DaysBeforeYear(y), y, 1)

(***************************************************************************)
(* str: strings that the code takes apart are sequences of characters.     *)
(***************************************************************************)
IsSpace(c) == c = " "

LowerChar(c) ==
    CASE c = "A" -> "a"
      [] c = "B" -> "b"
      [] c = "S" -> "s"
      [] c = "F" -> "f"
      [] OTHER -> c

\* str.lower()
Lower(s) == [i \in DOMAIN s |-> LowerChar(s[i])]

RECURSIVE LStrip(_)
LStrip(s) == IF s # <<>> /\ IsSpace(Head(s)) THEN LStrip(Tail(s)) ELSE s

RECURSIVE RStrip(_)
RStrip(s) ==
    IF s # <<>> /\ IsSpace(s[Len(s)]) THEN RStrip(SubSeq(s, 1, Len(s) - 1)) ELSE s

\* str.strip()
Strip(s) == RStrip(LStrip(s))

\* sub in s
Contains(s, sub) ==
    \E i \in 0..(Len(s) - Len(sub)) : SubSeq(s, i + 1, i + Len(sub)) = sub

\* column.ilike("%pattern%")
ILike(s, pattern) == Contains(Lower(s), Lower(pattern))

(***************************************************************************)
(* Values exchanged with the external completion API.                      *)
(*                                                                         *)
(* A raw date is the text of a candidate's "date_time" or "date" entry:    *)
(* fmt "none" is a missing (or empty) entry, fmt "tbd" a text that         *)
(* dateutil cannot parse, and "iso" and "text" are two spellings of the    *)
(* instant `at`.                                                           *)
(***************************************************************************)
NoDate == [fmt |-> "none", at |-> 0]
BadDate == [fmt |-> "tbd", at |-> 0]
IsoDate(t) == [fmt |-> "iso", at |-> t]
TextDate(t) == [fmt |-> "text", at |-> t]

\* datetime.isoformat()
IsoFormat(t) == IsoDate(t)

\* bool(date_str)
DateGiven(d) == d.fmt # "none"

\* date_parser.parse(str(date_str)) succeeds
DateParses(d) == d.fmt \in {"iso", "text"}

\* date_parser.parse(str(date_str))
ParseDate(d) == d.at

\* A candidate of a search response.  obj is FALSE for an element of the
\* JSON array that is not an object.  The attributes that the code copies
\* to the row unread (description, url, organizer, price) are stood for by
\* location.
Candidate(title, date_time, date, location) ==
    [obj |-> TRUE, title |-> title, date_time |-> date_time, date |-> date,
     location |-> location, classified |-> FALSE, ai_relevance_score |-> 0,
     category |-> "", tags |-> <<>>, event_type |-> ""]

NotAnObject == [Candidate(<<>>, NoDate, NoDate, <<>>) EXCEPT !.obj = FALSE]

Classification(score, category, tags, event_type) ==
    [ai_relevance_score |-> score, category |-> category, tags |-> tags,
     event_type |-> event_type]

(***************************************************************************)
(* State.                                                                  *)
(***************************************************************************)
VARIABLES
    now,          \* the clock (datetime.now / datetime.utcnow), in ticks
    events,       \* table events: a set of Event rows
    watched,      \* table watched_events: a set of WatchedEvent rows
    sessions,     \* table user_sessions: a set of UserSession rows
    logs,         \* table event_discovery_logs: the rows, in insertion order
    tokens,       \* session ids generated so far
    cache,        \* PerplexityClient._cache: title -> classification
    run,          \* the discovery request being served
    resp,         \* the answer to the last request
    calls         \* the calls of the engine that are under way side by side

vars == <<now, events, watched, sessions, logs, tokens, cache, run, resp, calls>>

(***************************************************************************)
(* models.py: the rows.                                                    *)
(***************************************************************************)
\* Event.id is a fresh uuid4: here the next unused number
NextEventId(evs) == Cardinality(evs) + 1

EventIds(evs) == {e.id : e \in evs}

\* the key that the existence check of _process_and_store_event compares
Triple(e) == <<e.title, e.date_time, e.platform>>

\* the text "Online"
Online == <<"O", "n", "l", "i", "n", "e">>

DefaultPreferences(location) ==
    [location |-> location,
     categories |-> <<"Conference", "Workshop", "Networking", "Talk", "Hackathon">>,
     min_relevance_score |-> 5,
     platform |-> "luma",
     notifications |-> TRUE,
     theme |-> "dark"]

\* dict.update: the entries of q over those of p
DictUpdate(p, q) ==
    [k \in DOMAIN p \cup DOMAIN q |-> IF k \in DOMAIN q THEN q[k] ELSE p[k]]

SessionRows(ss, sid) == {s \in ss : s.session_id = sid}

WatchRows(w, sid, eid) == {r \in w : r.session_id = sid /\ r.event_id = eid}

(***************************************************************************)
(* session_manager.py                                                      *)
(***************************************************************************)
NoCookie == 0
\* a request without the session cookie; session ids are 1, 2, ...

\* _update_last_active and the commit that follows it
UpdateLastActive(ss, sid, t) ==
    {IF s.session_id = sid THEN [s EXCEPT !.last_active = t] ELSE s : s \in ss}

\* create_session: the row that is added (location or "Online")
NewSession(sid, location, preferences, t) ==
    LET merged == DictUpdate(DefaultPreferences(IF location = <<>> THEN Online ELSE location),
                             preferences)
    IN  [session_id |-> sid, created_at |-> t, last_active |-> t,
         location |-> merged.location, preferences |-> merged]

CreateSession(ss, sid, location, preferences, t) ==
    ss \cup {NewSession(sid, location, preferences, t)}

\* get_session: the table after the lookup (last_active refreshed on a hit)
GetSession(ss, sid, t) ==
    IF SessionRows(ss, sid) # {} THEN UpdateLastActive(ss, sid, t) ELSE ss

\* What the commit of update_session_preferences writes to the preferences
\* column.  The column is a plain JSON column (models.py:39, no mutation
\* tracking): current_prefs is the very dict that the row was loaded with,
\* it is updated in place and assigned back, so the unit of work compares
\* the attribute with itself, finds it unchanged and leaves the column out
\* of the UPDATE.  Only when the stored map is empty is current_prefs a new
\* dict, which is written.
CommittedPreferences(stored, preferences) ==
    IF DOMAIN stored = {} THEN DictUpdate(stored, preferences) ELSE stored

\* update_session_preferences: the table after the call
UpdateSessionPreferences(ss, sid, preferences, t) ==
    {IF s.session_id = sid
       THEN [s EXCEPT
               !.preferences = CommittedPreferences(s.preferences, preferences),
               !.location = IF "location" \in DOMAIN preferences
                              THEN preferences.location ELSE s.location,
               !.last_active = t]
       ELSE s : s \in ss}

\* update_session_preferences: its return value
UpdateSessionPreferencesResult(ss, sid) == SessionRows(ss, sid) # {}

\* an expiry that slides with the use of the session
IdleTooLong(s, t) == t > s.last_active + Timedelta(SessionLifetimeDays)

\* created_at + session_lifetime has passed
Expired(s, t) == t > s.created_at + Timedelta(SessionLifetimeDays)

\* Deleting a UserSession row through the ORM.  The relationship
\* UserSession.watched_events (models.py:43) has no delete cascade, so the
\* flush tries to null watched_events.session_id of the session's rows; the
\* column is part of the primary key (models.py:48), the flush raises, and
\* the caller's except clause drops the delete.
DeleteSession(ss, w, sid) ==
    IF \E r \in w : r.session_id = sid
      THEN ss
      ELSE {s \in ss : s.session_id # sid}

\* _cleanup_expired_session
CleanupExpiredSession(ss, w, sid) == DeleteSession(ss, w, sid)

\* cleanup_expired_sessions: the rows with created_at before the cutoff
ExpiredSessions(ss, t) ==
    {s \in ss : s.created_at < t - Timedelta(SessionLifetimeDays)}

\* cleanup_expired_sessions: the deletes of all expired rows are flushed by
\* one commit; when one of them raises (DeleteSession), the except clause
\* drops them all
CleanupRaises(ss, w, t) ==
    \E s \in ExpiredSessions(ss, t) : \E r \in w : r.session_id = s.session_id

\* cleanup_expired_sessions: the table after the call
CleanupExpiredSessions(ss, w, t) ==
    IF CleanupRaises(ss, w, t) THEN ss ELSE ss \ ExpiredSessions(ss, t)

\* cleanup_expired_sessions: its return value
CleanupExpiredSessionsResult(ss, w, t) ==
    IF CleanupRaises(ss, w, t) THEN 0 ELSE Cardinality(ExpiredSessions(ss, t))

\* is_valid_session: its return value
IsValidSession(ss, sid, t) ==
    /\ sid # NoCookie
    /\ \E s \in SessionRows(ss, sid) : ~Expired(s, t)

\* is_valid_session: the table after the call
AfterIsValidSession(ss, w, sid, t) ==
    IF sid = NoCookie THEN ss
    ELSE IF \E s \in SessionRows(ss, sid) : Expired(s, t)
      THEN CleanupExpiredSession(GetSession(ss, sid, t), w, sid)
      ELSE GetSession(ss, sid, t)

\* a search that loses the candidates of every query
NoCandidates(r) == <<>>

(***************************************************************************)
(* perplexity_client.py                                                    *)
(***************************************************************************)
\* _execute_search: the candidates of one query (none when the call raises
\* or the content is not JSON)
ExecuteSearch(r) == IF r.kind = "json" THEN r.events ELSE <<>>

\* _deduplicate_events: the signature of a candidate
Signature(e) == <<Strip(Lower(e.title)), e.date_time>>

RECURSIVE DeduplicateFrom(_, _)
DeduplicateFrom(evs, seen_events) ==
    IF evs = <<>> THEN <<>>
    ELSE LET signature == Signature(Head(evs))
         IN  IF signature \in seen_events
               THEN DeduplicateFrom(Tail(evs), seen_events)
               ELSE <<Head(evs)>> \o DeduplicateFrom(Tail(evs), seen_events \cup {signature})

\* _deduplicate_events
DeduplicateEvents(evs) == DeduplicateFrom(evs, {})

\* a search step that raises also when its queries have given nothing
RaisesOnNothing(evs) == evs = <<>> \/ \E i \in DOMAIN evs : ~evs[i].obj

\* _deduplicate_events raises (event.get on an element that is no object)
DeduplicateRaises(evs) == \E i \in DOMAIN evs : ~evs[i].obj

\* classify_event: the key of the cache
CacheKey(e) == e.title

FallbackClassification == Classification(5, "Other", <<>>, "unknown")

\* classify_event issues a request (no cache entry for the title)
ClassifyCalls(c, e) == CacheKey(e) \notin DOMAIN c

\* classify_event raises
ClassifyRaises(c, e, r) == ClassifyCalls(c, e) /\ r.kind = "error"

\* classify_event: its return value when it does not raise
ClassifyEvent(c, e, r) ==
    IF ~ClassifyCalls(c, e) THEN c[CacheKey(e)]
    ELSE IF r.kind = "json" THEN r.json
    ELSE FallbackClassification

\* a client that keeps no result
NoCache(c, e, r) == c

\* classify_event: the cache after the call
CacheAfter(c, e, r) ==
    IF ClassifyCalls(c, e) /\ r.kind = "json"
      THEN [t \in DOMAIN c \cup {CacheKey(e)} |->
              IF t = CacheKey(e) THEN r.json ELSE c[t]]
      ELSE c

\* event.update(classification)
EventUpdate(e, cl) ==
    [e EXCEPT !.classified = TRUE,
              !.ai_relevance_score = cl.ai_relevance_score,
              !.category = cl.category,
              !.tags = cl.tags,
              !.event_type = cl.event_type]

\* a loop that keeps a candidate only when the classifier's JSON parsed
KeptIfParsed(classified_events, c, e, r) ==
    IF ClassifyCalls(c, e) /\ r.kind # "json" THEN classified_events
    ELSE IF ClassifyEvent(c, e, r).ai_relevance_score >= RelevanceGate
      THEN Append(classified_events, EventUpdate(e, ClassifyEvent(c, e, r)))
      ELSE classified_events

\* search_events, one turn of the classification loop: classified_events
\* after the candidate e
ClassifiedAfter(classified_events, c, e, r) ==
    IF ClassifyRaises(c, e, r) THEN classified_events
    ELSE IF ClassifyEvent(c, e, r).ai_relevance_score >= RelevanceGate
      THEN Append(classified_events, EventUpdate(e, ClassifyEvent(c, e, r)))
      ELSE classified_events

(***************************************************************************)
(* event_discovery.py: _process_and_store_event                            *)
(***************************************************************************)
StoreTitle(raw) == Strip(raw.title)

\* raw_event.get("date_time") or raw_event.get("date")
DateStr(raw) == IF DateGiven(raw.date_time) THEN raw.date_time ELSE raw.date

\* a check of the title alone
TitleGiven(raw) == StoreTitle(raw) # <<>>

\* the candidate passes the title and date checks
Storable(raw) ==
    /\ StoreTitle(raw) # <<>>
    /\ DateGiven(DateStr(raw))
    /\ DateParses(DateStr(raw))

\* the rows that the existence query selects
ExistingEvents(evs, raw, platform) ==
    {e \in evs : /\ e.title = StoreTitle(raw)
                 /\ e.date_time = ParseDate(DateStr(raw))
                 /\ e.platform = platform}

NewEvent(evs, raw, platform, t) ==
    [id |-> NextEventId(evs),
     title |-> StoreTitle(raw),
     date_time |-> ParseDate(DateStr(raw)),
     location |-> Strip(raw.location),
     platform |-> platform,
     category |-> IF raw.classified THEN raw.category ELSE "Other",
     ai_relevance_score |-> IF raw.classified THEN raw.ai_relevance_score ELSE 5,
     tags |-> IF raw.classified THEN raw.tags ELSE <<>>,
     event_type |-> IF raw.classified THEN raw.event_type ELSE "unknown",
     created_at |-> t,
     updated_at |-> t,
     is_active |-> TRUE]

\* the update of a row that is sighted again
Resighted(e, raw, t) ==
    [e EXCEPT !.updated_at = t,
              !.ai_relevance_score =
                  IF raw.classified THEN raw.ai_relevance_score ELSE e.ai_relevance_score]

\* a store that inserts a row for every storable candidate
InsertAlways(evs, raw, platform, t) ==
    IF ~Storable(raw) THEN evs ELSE evs \cup {NewEvent(evs, raw, platform, t)}

\* _process_and_store_event: the table after the call.  scalar_one_or_none
\* raises on more than one row, and the except clause rolls back.
ProcessAndStoreEvent(evs, raw, platform, t) ==
    LET existing == ExistingEvents(evs, raw, platform)
    IN  IF ~Storable(raw) THEN evs
        ELSE IF Cardinality(existing) > 1 THEN evs
        ELSE IF existing # {}
          THEN {IF e \in existing THEN Resighted(e, raw, t) ELSE e : e \in evs}
          ELSE evs \cup {NewEvent(evs, raw, platform, t)}

\* _process_and_store_event returns a summary (and not None)
ReturnsSummary(evs, raw, platform) ==
    Storable(raw) /\ ExistingEvents(evs, raw, platform) = {}

Summary(e) ==
    [id |-> e.id, title |-> e.title, category |-> e.category,
     aiRelevanceScore |-> e.ai_relevance_score, dateTime |-> IsoFormat(e.date_time)]

(***************************************************************************)
(* event_discovery.py: get_events_for_month                                *)
(***************************************************************************)
\* month or now.month, year or now.year (None and 0 are both falsy)
TargetMonth(month, t) == IF month = 0 THEN MonthOf(t) ELSE month
TargetYear(year, t) == IF year = 0 THEN YearOf(t) ELSE year

\* the month's date range is computed without an error
MonthRangeValid(y, m) ==
    /\ DatetimeValid(y, m, 1)
    /\ IF m = 12 THEN DatetimeValid(y + 1, 1, 1) ELSE DatetimeValid(y, m + 1, 1)

StartDate(y, m) == Datetime(y, m, 1)

\* the first instant of the month that follows
NextMonthStart(y, m) == IF m = 12 THEN Datetime(y + 1, 1, 1) ELSE Datetime(y, m + 1, 1)

EndDate(y, m) ==
    IF m = 12
      THEN Datetime(y + 1, 1, 1) - Timedelta(1)
      ELSE Datetime(y, m + 1, 1) - Timedelta(1)

\* the WHERE clause without the filter on the category
SelectedOfAnyCategory(e, location, m, y, category, min_relevance_score) ==
    /\ e.date_time >= StartDate(y, m)
    /\ e.date_time <= EndDate(y, m)
    /\ e.ai_relevance_score >= min_relevance_score
    /\ e.is_active
    /\ (location # <<>> => ILike(e.location, location))

\* the WHERE clause of the events query; an empty location or category
\* is falsy and adds no filter
Selected(e, location, m, y, category, min_relevance_score) ==
    /\ e.date_time >= StartDate(y, m)
    /\ e.date_time <= EndDate(y, m)
    /\ e.ai_relevance_score >= min_relevance_score
    /\ e.is_active
    /\ (location # <<>> => ILike(e.location, location))
    /\ (category # "" /\ category \in Range(event_categories) => e.category = category)

\* ORDER BY date_time ASC, ai_relevance_score DESC (rows that tie on both
\* are taken in the order of their ids)
Before(a, b) ==
    \/ a.date_time < b.date_time
    \/ a.date_time = b.date_time /\ a.ai_relevance_score > b.ai_relevance_score
    \/ a.date_time = b.date_time /\ a.ai_relevance_score = b.ai_relevance_score /\ a.id < b.id

RECURSIVE Ordered(_)
Ordered(rows) ==
    IF rows = {} THEN <<>>
    ELSE LET first == CHOOSE a \in rows : \A b \in rows \ {a} : Before(a, b)
         IN  <<first>> \o Ordered(rows \ {first})

\* watched_event_ids
\* the ids of the events that any session watches
WatchedByAnyone(w, sid) == {r.event_id : r \in w}

WatchedEventIds(w, sid) == {r.event_id : r \in {x \in w : x.session_id = sid}}

FormatEvent(e, watched_event_ids) ==
    [id |-> e.id, title |-> e.title, dateTime |-> IsoFormat(e.date_time), location |-> e.location,
     platform |-> e.platform, category |-> e.category,
     aiRelevanceScore |-> e.ai_relevance_score, tags |-> e.tags,
     eventType |-> e.event_type, isWatched |-> e.id \in watched_event_ids,
     createdAt |-> IsoFormat(e.created_at)]

\* events_by_category[category_name]
CategoryBucket(formatted_events, category_name) ==
    LET InBucket(e) == e.category = category_name
    IN  SelectSeq(formatted_events, InBucket)

\* get_events_for_month: its return value
GetEventsForMonth(evs, w, sid, location, month, year, category, min_relevance_score, t) ==
    LET m == TargetMonth(month, t)
        y == TargetYear(year, t)
        rows == Ordered({e \in evs : Selected(e, location, m, y, category, min_relevance_score)})
        formatted_events == [i \in DOMAIN rows |-> FormatEvent(rows[i], WatchedEventIds(w, sid))]
        IsWatched(e) == e.isWatched
    IN  [events |-> formatted_events,
         eventsByCategory |->
             [c \in Range(event_categories) |-> CategoryBucket(formatted_events, c)],
         totalEvents |-> Len(formatted_events),
         watchedCount |-> Len(SelectSeq(formatted_events, IsWatched)),
         month |-> m,
         year |-> y]

(***************************************************************************)
(* event_discovery.py: mark_event_watched, unmark_event_watched            *)
(***************************************************************************)
\* an INSERT checked against the foreign keys alone (a table without the
\* primary key)
ForeignKeyRefused(w, evs, ss, fk, sid, eid) ==
    fk /\ (eid \notin EventIds(evs) \/ SessionRows(ss, sid) = {})

\* The INSERT of a WatchedEvent row is refused (IntegrityError): the pair is
\* the primary key (models.py:48-49), and both columns are foreign keys,
\* checked when the database enforces them.
InsertRefused(w, evs, ss, fk, sid, eid) ==
    \/ WatchRows(w, sid, eid) # {}
    \/ fk /\ (eid \notin EventIds(evs) \/ SessionRows(ss, sid) = {})

\* the return value of an insert without the lookup of the pair
InsertResult(w, evs, ss, fk, sid, eid) == ~InsertRefused(w, evs, ss, fk, sid, eid)

\* mark_event_watched: its return value
MarkEventWatchedResult(w, evs, ss, fk, sid, eid) ==
    IF Cardinality(WatchRows(w, sid, eid)) > 1 THEN FALSE
    ELSE IF WatchRows(w, sid, eid) # {} THEN TRUE
    ELSE ~InsertRefused(w, evs, ss, fk, sid, eid)

\* mark_event_watched: the table after the call
MarkEventWatched(w, evs, ss, fk, sid, eid, t) ==
    IF WatchRows(w, sid, eid) # {} THEN w
    ELSE IF InsertRefused(w, evs, ss, fk, sid, eid) THEN w
    ELSE w \cup {[session_id |-> sid, event_id |-> eid, watched_at |-> t]}

\* unmark_event_watched: its return value
UnmarkEventWatchedResult(w, sid, eid) == Cardinality(WatchRows(w, sid, eid)) <= 1

\* unmark_event_watched: the table after the call
UnmarkEventWatched(w, sid, eid) ==
    IF Cardinality(WatchRows(w, sid, eid)) = 1
      THEN w \ WatchRows(w, sid, eid)
      ELSE w

(***************************************************************************)
(* Initial state: empty tables, an empty cache, no request served yet.     *)
(***************************************************************************)
NoResponse == [op |-> "none", status |-> 0]

IdleRun ==
    [pc |-> "idle", sid |-> NoCookie, platform |-> "", location |-> <<>>,
     month |-> 0, year |-> 0, q |-> 0, all_events |-> <<>>, unique_events |-> <<>>,
     raw_events |-> <<>>, k |-> 0, processed_events |-> <<>>, requests |-> 0]

Init ==
    /\ now = 0
    /\ events = {}
    /\ watched = {}
    /\ sessions = {}
    /\ logs = <<>>
    /\ tokens = 0
    /\ cache = <<>>
    /\ run = IdleRun
    /\ resp = NoResponse
    /\ calls = <<>>

\* no discovery run is between two of its steps
Quiescent == run.pc \in {"idle", "done", "failed"}

(***************************************************************************)
(* api-events.py: get_session_id                                           *)
(***************************************************************************)
\* the cookie names a valid session
CookieValid(cookie) == IsValidSession(sessions, cookie, now)

\* the session id that the handler works with
SessionIdFor(cookie) == IF CookieValid(cookie) THEN cookie ELSE tokens + 1

\* a get_session_id that adds no row (that of api-users.py)
SessionsChecked(cookie) == AfterIsValidSession(sessions, watched, cookie, now)

\* user_sessions after get_session_id (no CF-IPCountry header: "Online")
SessionsAfterGetSessionId(cookie) ==
    LET checked == AfterIsValidSession(sessions, watched, cookie, now)
    IN  IF CookieValid(cookie) THEN checked
        ELSE CreateSession(checked, tokens + 1, Online, <<>>, now)

TokensAfterGetSessionId(cookie) == IF CookieValid(cookie) THEN tokens ELSE tokens + 1

(***************************************************************************)
(* api-events.py and event_discovery.py: POST /discover-events             *)
(***************************************************************************)
\* a handler with the one clause "except Exception"
ServerErrorStatus(raised) == IF raised = "none" THEN 200 ELSE 500

\* the except clauses of the handler: ValueError -> 400, Exception -> 500
DiscoverStatus(raised) ==
    CASE raised = "none" -> 200
      [] raised = "ValueError" -> 400
      [] OTHER -> 500

\* discover_events raises before its try block
DiscoverRejects(platform, month, year) ==
    \/ platform \notin supported_platforms
    \/ ~MonthRangeValid(TargetYear(year, now), TargetMonth(month, now))

\* a log row that counts every candidate found as classified
LogOfFound(r, found, classified, success, error_message) ==
    [search_query |-> <<r.location, r.platform, r.month, r.year>>,
     platform |-> r.platform, location |-> r.location,
     events_found |-> found, events_classified |-> found,
     success |-> success, error_message |-> error_message]

DiscoveryLog(r, found, classified, success, error_message) ==
    [search_query |-> <<r.location, r.platform, r.month, r.year>>,
     platform |-> r.platform, location |-> r.location,
     events_found |-> found, events_classified |-> classified,
     success |-> success, error_message |-> error_message]

DiscoverResponse(cookie, platform, month, year, raised, evs) ==
    [op |-> "discover", status |-> DiscoverStatus(raised), raised |-> raised,
     cookie |-> cookie, platform |-> platform, month |-> month, year |-> year,
     events |-> evs]

ApiDiscoverEvents(cookie, location, platform, month, year) ==
    LET sid == SessionIdFor(cookie)
        started ==
            [IdleRun EXCEPT !.pc = "search", !.sid = sid, !.platform = platform,
                            !.location = location,
                            !.month = TargetMonth(month, now),
                            !.year = TargetYear(year, now), !.q = 1]
    IN  /\ Quiescent
        /\ tokens' = TokensAfterGetSessionId(cookie)
        /\ sessions' = UpdateSessionPreferences(
                           SessionsAfterGetSessionId(cookie), sid,
                           [location |-> location, platform |-> platform], now)
        /\ IF DiscoverRejects(platform, month, year)
             THEN /\ run' = IdleRun
                  /\ resp' = DiscoverResponse(cookie, platform, month, year, "ValueError", <<>>)
             ELSE /\ run' = started
                  /\ resp' = [op |-> "discover", status |-> 0, raised |-> "none",
                              cookie |-> cookie, platform |-> platform, month |-> month,
                              year |-> year, events |-> <<>>]
        /\ UNCHANGED <<now, events, watched, logs, cache, calls>>

\* search_events: one query of the loop; after the last one, deduplication.
\* When deduplication raises, discover_events stores the log of the failed
\* run and raises again.
SearchEffect(rn, r) ==
    LET all_events == rn.all_events \o ExecuteSearch(r)
        issued == [rn EXCEPT !.requests = @ + 1, !.all_events = all_events]
        unique_events == DeduplicateEvents(all_events)
    IN  /\ Len(all_events) <= MaxBatch
        /\ IF rn.q < NumQueries
             THEN /\ run' = [issued EXCEPT !.q = @ + 1]
                  /\ UNCHANGED <<logs, resp>>
             ELSE IF DeduplicateRaises(all_events)
               THEN /\ run' = [IdleRun EXCEPT !.pc = "failed", !.requests = issued.requests]
                    /\ logs' = Append(logs, DiscoveryLog(rn, 0, 0, FALSE, "AttributeError"))
                    /\ resp' = [resp EXCEPT !.status = DiscoverStatus("AttributeError"),
                                            !.raised = "AttributeError"]
               ELSE /\ run' = [issued EXCEPT
                                 !.pc = IF unique_events = <<>> THEN "store" ELSE "classify",
                                 !.unique_events = unique_events,
                                 !.k = 1]
                    /\ UNCHANGED <<logs, resp>>

\* the query and its answer in one step
SearchStep(r) ==
    /\ run.pc = "search"
    /\ SearchEffect(run, r)
    /\ UNCHANGED <<now, events, watched, sessions, tokens, cache, calls>>

\* search_events: one turn of the classification loop, the classifier
\* answering r when it is asked
ClassifyEffect(rn, r) ==
    LET e == rn.unique_events[rn.k]
        classified_events == ClassifiedAfter(rn.raw_events, cache, e, r)
        last == rn.k = Len(rn.unique_events)
    IN  /\ cache' = CacheAfter(cache, e, r)
        /\ run' = [rn EXCEPT
                     !.requests = IF ClassifyCalls(cache, e) THEN @ + 1 ELSE @,
                     !.raw_events = classified_events,
                     !.k = IF last THEN 1 ELSE @ + 1,
                     !.pc = IF last THEN "store" ELSE @,
                     !.all_events = IF last THEN <<>> ELSE @,
                     !.unique_events = IF last THEN <<>> ELSE @]

\* the turn in one step
Classified(r) ==
    /\ run.pc = "classify"
    /\ ClassifyEffect(run, r)
    /\ UNCHANGED <<now, events, watched, sessions, logs, tokens, resp, calls>>

\* the title is not in the cache: the classifier is asked
ClassifyStep(r) ==
    /\ run.pc = "classify"
    /\ ClassifyCalls(cache, run.unique_events[run.k])
    /\ Classified(r)

\* the title is in the cache: no request
ClassifyFromCache ==
    /\ run.pc = "classify"
    /\ ~ClassifyCalls(cache, run.unique_events[run.k])
    /\ Classified([kind |-> "error"])

\* discover_events: one turn of the loop over raw_events
StoreStep ==
    LET raw_event == run.raw_events[run.k]
    IN  /\ run.pc = "store"
        /\ run.k <= Len(run.raw_events)
        /\ events' = ProcessAndStoreEvent(events, raw_event, run.platform, now)
        /\ run' = [run EXCEPT
                     !.k = @ + 1,
                     !.processed_events =
                         IF ReturnsSummary(events, raw_event, run.platform)
                           THEN Append(@, Summary(NewEvent(events, raw_event, run.platform, now)))
                           ELSE @]
        /\ UNCHANGED <<now, watched, sessions, logs, tokens, cache, resp, calls>>

\* discover_events: the log of the run is stored, and the handler answers
FinishDiscovery ==
    /\ run.pc = "store"
    /\ run.k > Len(run.raw_events)
    /\ logs' = Append(logs, DiscoveryLog(run, Len(run.raw_events),
                                         Len(run.processed_events), TRUE, ""))
    /\ resp' = [resp EXCEPT !.status = DiscoverStatus("none"),
                            !.events = run.processed_events]
    /\ run' = [IdleRun EXCEPT !.pc = "done", !.requests = run.requests]
    /\ UNCHANGED <<now, events, watched, sessions, tokens, cache, calls>>

(***************************************************************************)
(* api-events.py: GET /events/{month}/{year}                               *)
(***************************************************************************)
\* the checks of the path parameters
MonthYearValid(month, year) ==
    /\ 1 <= month /\ month <= 12
    /\ ~(year < MinYearApi \/ year > MaxYearApi)

\* The status that the handler answers with.  The HTTPException(400) of a
\* failed check is raised inside the try block, whose only except clause,
\* "except Exception", catches it and raises HTTPException(500).
GetEventsStatus(month, year) == IF MonthYearValid(month, year) THEN 200 ELSE 500

NoEventsData ==
    [events |-> <<>>, eventsByCategory |-> [c \in Range(event_categories) |-> <<>>],
     totalEvents |-> 0, watchedCount |-> 0, month |-> 0, year |-> 0]

ApiGetEventsForMonth(cookie, month, year, location, category, min_relevance_score) ==
    LET sid == SessionIdFor(cookie)
        queried == MonthYearValid(month, year)
        floor == IF min_relevance_score = 0 THEN DefaultMinRelevance ELSE min_relevance_score
    IN  /\ Quiescent
        /\ tokens' = TokensAfterGetSessionId(cookie)
        /\ sessions' = SessionsAfterGetSessionId(cookie)
        /\ resp' = [op |-> "events", status |-> GetEventsStatus(month, year),
                    cookie |-> cookie, month |-> month, year |-> year,
                    category |-> category, location |-> location, floor |-> floor,
                    sid |-> sid, queried |-> queried,
                    data |-> IF queried
                               THEN GetEventsForMonth(events, watched, sid, location, month,
                                                      year, category, floor, now)
                               ELSE NoEventsData]
        /\ UNCHANGED <<now, events, watched, logs, cache, run, calls>>

(***************************************************************************)
(* api-events.py: POST /events/watch                                       *)
(***************************************************************************)
\* The status that the handler answers with.  As in GET /events, the
\* HTTPException(400) of a failed toggle is raised inside the try block and
\* caught by "except Exception".
ToggleStatus(success) == IF success THEN 200 ELSE 500

\* fk: whether the database of ASYNC_DATABASE_URL enforces foreign keys
\* (SQLite, the default, does not)
ApiToggleWatch(cookie, event_id, watch_status, fk) ==
    LET sid == SessionIdFor(cookie)
        ss == SessionsAfterGetSessionId(cookie)
        success ==
            IF watch_status
              THEN MarkEventWatchedResult(watched, events, ss, fk, sid, event_id)
              ELSE UnmarkEventWatchedResult(watched, sid, event_id)
    IN  /\ Quiescent
        /\ tokens' = TokensAfterGetSessionId(cookie)
        /\ sessions' = ss
        /\ watched' =
              IF watch_status
                THEN MarkEventWatched(watched, events, ss, fk, sid, event_id, now)
                ELSE UnmarkEventWatched(watched, sid, event_id)
        /\ resp' = [op |-> "watch", status |-> ToggleStatus(success), success |-> success,
                    cookie |-> cookie, sid |-> sid, event_id |-> event_id,
                    watch_status |-> watch_status,
                    was_watched |-> WatchRows(watched, sid, event_id) # {}]
        /\ UNCHANGED <<now, events, logs, cache, run, calls>>

(***************************************************************************)
(* api-users.py: GET and PUT /preferences                                  *)
(***************************************************************************)
\* get_user_preferences (session_manager.py): the stored map, or the
\* defaults when the session is missing or its map is empty
GetUserPreferences(ss, sid) ==
    IF \E s \in SessionRows(ss, sid) : DOMAIN s.preferences # {}
      THEN (CHOOSE s \in SessionRows(ss, sid) : TRUE).preferences
      ELSE DefaultPreferences(Online)

\* get_session_id of api-users.py answers 401 without a valid cookie
ApiGetPreferences(cookie) ==
    LET valid == CookieValid(cookie)
        checked == AfterIsValidSession(sessions, watched, cookie, now)
    IN  /\ Quiescent
        /\ sessions' = IF valid THEN GetSession(checked, cookie, now) ELSE checked
        /\ resp' = [op |-> "preferences", status |-> IF valid THEN 200 ELSE 401,
                    cookie |-> cookie, valid |-> valid,
                    preferences |-> IF valid THEN GetUserPreferences(checked, cookie)
                                             ELSE <<>>]
        /\ UNCHANGED <<now, events, watched, logs, tokens, cache, run, calls>>

\* preferences_update: the entries of the request that are not None
ApiUpdatePreferences(cookie, preferences_update) ==
    LET valid == CookieValid(cookie)
        checked == AfterIsValidSession(sessions, watched, cookie, now)
        provided == DOMAIN preferences_update # {}
        success == UpdateSessionPreferencesResult(checked, cookie)
        updated == UpdateSessionPreferences(checked, cookie, preferences_update, now)
    IN  /\ Quiescent
        /\ sessions' = IF valid /\ provided THEN GetSession(updated, cookie, now) ELSE checked
        /\ resp' = [op |-> "update", cookie |-> cookie, valid |-> valid,
                    update |-> preferences_update,
                    status |-> IF ~valid THEN 401
                               ELSE IF ~provided THEN 400
                               ELSE IF success THEN 200 ELSE 400,
                    preferences |-> IF valid /\ provided
                                      THEN GetUserPreferences(updated, cookie) ELSE <<>>]
        /\ UNCHANGED <<now, events, watched, logs, tokens, cache, run, calls>>

(***************************************************************************)
(* api-users.py: GET /session/stats, POST /session/create, DELETE /session *)
(***************************************************************************)
\* get_session_stats (session_manager.py): the statistics of a session, or
\* the empty map when get_session finds no row
GetSessionStats(ss, w, sid, t) ==
    IF SessionRows(ss, sid) = {} THEN <<>>
    ELSE LET session == CHOOSE s \in SessionRows(ss, sid) : TRUE
         IN  [created_at |-> session.created_at,
              last_active |-> session.last_active,
              session_age_days |-> (t - session.created_at) \div TicksPerDay,
              watched_events_count |-> Cardinality({r \in w : r.session_id = sid}),
              location |-> session.location,
              preferences |-> session.preferences]

\* GET /session/stats: 401 from get_session_id without a valid cookie
ApiGetSessionStats(cookie) ==
    LET valid == CookieValid(cookie)
        checked == AfterIsValidSession(sessions, watched, cookie, now)
    IN  /\ Quiescent
        /\ sessions' = IF valid THEN GetSession(checked, cookie, now) ELSE checked
        /\ resp' = [op |-> "stats", status |-> IF valid THEN 200 ELSE 401,
                    cookie |-> cookie, valid |-> valid,
                    stats |-> IF valid THEN GetSessionStats(checked, watched, cookie, now)
                                       ELSE <<>>]
        /\ UNCHANGED <<now, events, watched, logs, tokens, cache, run, calls>>

\* POST /session/create: the handler has no get_session_id dependency and
\* does not read the cookie of the request; it creates a session each time
ApiCreateSession(cookie, location, preferences) ==
    /\ Quiescent
    /\ sessions' = CreateSession(sessions, tokens + 1, location, preferences, now)
    /\ tokens' = tokens + 1
    /\ resp' = [op |-> "create", status |-> 200, cookie |-> cookie,
                sid |-> tokens + 1, location |-> location,
                preferences |-> preferences]
    /\ UNCHANGED <<now, events, watched, logs, cache, run, calls>>

\* DELETE /session: 401 from get_session_id without a valid cookie; the
\* handler deletes the cookie of the client and no row
ApiClearSession(cookie) ==
    LET valid == CookieValid(cookie)
    IN  /\ Quiescent
        /\ sessions' = AfterIsValidSession(sessions, watched, cookie, now)
        /\ resp' = [op |-> "clear", status |-> IF valid THEN 200 ELSE 401,
                    cookie |-> cookie, valid |-> valid]
        /\ UNCHANGED <<now, events, watched, logs, tokens, cache, run, calls>>

(***************************************************************************)
(* event_discovery.py: mark_event_watched and unmark_event_watched as      *)
(* coroutines.  A call gives way to other calls at its awaits: after the   *)
(* lookup of the pair, and at the commit of its INSERT or DELETE.          *)
(***************************************************************************)
\* the calls but the i-th (the call has returned)
Returned(i) == SubSeq(calls, 1, i - 1) \o SubSeq(calls, i + 1, Len(calls))

\* a call of mark_event_watched or unmark_event_watched starts
BeginWatchCall(op, session_id, event_id, fk) ==
    /\ calls' = Append(calls, [op |-> op, pc |-> "lookup", session_id |-> session_id,
                                event_id |-> event_id, fk |-> fk])
    /\ UNCHANGED <<now, events, watched, sessions, logs, tokens, cache, run, resp>>

\* the SELECT of the pair and scalar_one_or_none: more than one row raises
\* (the call returns false); mark returns true on a row, unmark on none
WatchLookup(i) ==
    LET c == calls[i]
        rows == WatchRows(watched, c.session_id, c.event_id)
        proceeds == Cardinality(rows) <= 1 /\ ((c.op = "mark") <=> (rows = {}))
    IN  /\ c.op \in {"mark", "unmark"}
        /\ c.pc = "lookup"
        /\ IF proceeds
             THEN /\ calls' = [calls EXCEPT ![i].pc = "commit"]
                  /\ UNCHANGED resp
             ELSE /\ calls' = Returned(i)
                  /\ resp' = [op |-> c.op, status |-> 0,
                              success |-> Cardinality(rows) <= 1]
        /\ UNCHANGED <<now, events, watched, sessions, logs, tokens, cache, run>>

\* the commit: the INSERT of mark is refused when the pair has a row by now
\* or a foreign key fails; the DELETE of unmark finds its row or raises
\* (StaleDataError); a call that raises returns false
WatchCommit(i) ==
    LET c == calls[i]
        rows == WatchRows(watched, c.session_id, c.event_id)
        refused == IF c.op = "mark"
                     THEN InsertRefused(watched, events, sessions, c.fk,
                                        c.session_id, c.event_id)
                     ELSE rows = {}
    IN  /\ c.op \in {"mark", "unmark"}
        /\ c.pc = "commit"
        /\ watched' = IF refused THEN watched
                      ELSE IF c.op = "mark"
                        THEN watched \cup {[session_id |-> c.session_id,
                                            event_id |-> c.event_id, watched_at |-> now]}
                        ELSE watched \ rows
        /\ calls' = Returned(i)
        /\ resp' = [op |-> c.op, status |-> 0, success |-> ~refused]
        /\ UNCHANGED <<now, events, sessions, logs, tokens, cache, run>>

(***************************************************************************)
(* event_discovery.py: _process_and_store_event as a coroutine of runs     *)
(* under way side by side.  A call gives way at the existence query and at *)
(* the commit of its INSERT.                                               *)
(***************************************************************************)
\* an INSERT into a table with a unique key on (title, date_time, platform)
InsertUniqueEvent(evs, raw, platform, t) ==
    IF ExistingEvents(evs, raw, platform) # {} THEN evs
    ELSE evs \cup {NewEvent(evs, raw, platform, t)}

\* db.add(event) and the commit: events has the primary key id alone
\* (models.py:12), the row is added whatever rows there are
InsertEvent(evs, raw, platform, t) == evs \cup {NewEvent(evs, raw, platform, t)}

\* a run calls _process_and_store_event for a candidate
BeginStoreCall(raw_event, platform) ==
    /\ calls' = Append(calls, [op |-> "store", pc |-> "lookup",
                                raw_event |-> raw_event, platform |-> platform])
    /\ UNCHANGED <<now, events, watched, sessions, logs, tokens, cache, run, resp>>

\* the checks of title and date and the existence query: the call returns
\* None for a candidate that is not storable, when the query raises, and
\* after the update of the row that it finds
StoreLookup(i) ==
    LET c == calls[i]
        existing == ExistingEvents(events, c.raw_event, c.platform)
        inserts == Storable(c.raw_event) /\ existing = {}
    IN  /\ c.op = "store"
        /\ c.pc = "lookup"
        /\ events' = IF inserts THEN events
                     ELSE ProcessAndStoreEvent(events, c.raw_event, c.platform, now)
        /\ calls' = IF inserts THEN [calls EXCEPT ![i].pc = "commit"] ELSE Returned(i)
        /\ resp' = IF inserts THEN resp
                   ELSE [op |-> "store", status |-> 0, summary |-> <<>>]
        /\ UNCHANGED <<now, watched, sessions, logs, tokens, cache, run>>

\* the INSERT, the commit and the summary that the call returns
StoreCommit(i) ==
    LET c == calls[i]
    IN  /\ c.op = "store"
        /\ c.pc = "commit"
        /\ events' = InsertEvent(events, c.raw_event, c.platform, now)
        /\ calls' = Returned(i)
        /\ resp' = [op |-> "store", status |-> 0,
                    summary |-> Summary(NewEvent(events, c.raw_event, c.platform, now))]
        /\ UNCHANGED <<now, watched, sessions, logs, tokens, cache, run>>

(***************************************************************************)
(* main.py: lifespan.  The process starts: no request is under way, the    *)
(* classifier's cache is empty, and the expired sessions are swept.        *)
(***************************************************************************)
Lifespan ==
    /\ Quiescent
    /\ calls = <<>>
    /\ sessions' = CleanupExpiredSessions(sessions, watched, now)
    /\ cache' = <<>>
    /\ run' = IdleRun
    /\ resp' = [op |-> "startup", status |-> 0,
                cleaned |-> CleanupExpiredSessionsResult(sessions, watched, now)]
    /\ UNCHANGED <<now, events, watched, logs, tokens, calls>>

(***************************************************************************)
(* The clock.                                                              *)
(***************************************************************************)
\* time passes between two requests
Tick(d, horizon) ==
    /\ Quiescent
    /\ now + d <= horizon
    /\ now' = now + d
    /\ UNCHANGED <<events, watched, sessions, logs, tokens, cache, run, resp, calls>>

(***************************************************************************)
(* Environments.                                                           *)
(***************************************************************************)
\* the answers of the completion API to a search query: a transport error,
\* a content that is not JSON, or a JSON array of candidates
SearchResponses(pool) ==
    {[kind |-> "error", events |-> <<>>], [kind |-> "text", events |-> <<>>]}
        \cup {[kind |-> "json", events |-> <<c>>] : c \in pool}

\* its answers to a classification prompt
ClassifyResponses(outputs) ==
    {[kind |-> "error"], [kind |-> "text"]}
        \cup {[kind |-> "json", json |-> o] : o \in outputs}

\* the steps of a discovery run
DiscoveryStep(pool, outputs) ==
    \/ \E r \in SearchResponses(pool) : SearchStep(r)
    \/ \E r \in ClassifyResponses(outputs) : ClassifyStep(r)
    \/ ClassifyFromCache
    \/ StoreStep
    \/ FinishDiscovery

\* the client sends back the cookie that it was given last
LastCookie == tokens

JanFirst == Instant(MinYearApi, 1, 1, 0)
FebFirst == Instant(MinYearApi, 2, 1, 0)
SF == <<"S", "F">>

(***************************************************************************)
(* Re-discovery of stored events.                                          *)
(***************************************************************************)
MaxRuns == 2
\* discovery runs
MaxClock == 1
\* ticks that pass

cWell == Candidate(<<"A">>, IsoDate(FebFirst), NoDate, SF)
cAgain == Candidate(<<"A", " ">>, NoDate, TextDate(FebFirst), Lower(SF))

ResightPool == {cWell, cAgain}
ResightOutputs == {Classification(6, "Talk", <<"technical">>, "in-person")}

NextResight ==
    \/ /\ Len(logs) < MaxRuns
       /\ \E platform \in supported_platforms :
              ApiDiscoverEvents(LastCookie, SF, platform, 0, 0)
    \/ DiscoveryStep(ResightPool, ResightOutputs)
    \/ Tick(1, MaxClock)

SpecResight == Init /\ [][NextResight]_vars

TripleUnique(evs) == \A a, b \in evs : Triple(a) = Triple(b) => a = b

\* the candidate that StoreStep is about to process is stored already
SeesStoredTriple ==
    /\ run.pc = "store"
    /\ run.k <= Len(run.raw_events)
    /\ Storable(run.raw_events[run.k])
    /\ ExistingEvents(events, run.raw_events[run.k], run.platform) # {}

\* row f is row e but for ai_relevance_score and updated_at
SameButScore(e, f) ==
    f = [e EXCEPT !.ai_relevance_score = f.ai_relevance_score, !.updated_at = f.updated_at]

\* C1: through every sequence of non-overlapping discovery runs no two Event
\* rows share (title, date_time, platform); a store step on a candidate whose
\* triple is stored inserts nothing, leaves every other row as it is, and
\* changes at most ai_relevance_score and updated_at of the row of the triple.
C1_UniqueTripleUpsert ==
    [][/\ TripleUnique(events')
       /\ (StoreStep /\ SeesStoredTriple) =>
             /\ EventIds(events') = EventIds(events)
             /\ Cardinality(events') = Cardinality(events)
             /\ \A e \in events :
                    IF e \in ExistingEvents(events, run.raw_events[run.k], run.platform)
                      THEN \E f \in events' : SameButScore(e, f)
                      ELSE e \in events'
      ]_vars

\* a second run has sighted a stored event again, later, with another score
C1_Resighted ==
    /\ Len(logs) = 2
    /\ Cardinality(events) = 1
    /\ \E e \in events : e.updated_at > e.created_at /\ e.ai_relevance_score = 6
    /\ \E i \in DOMAIN logs : logs[i].events_found = 1 /\ logs[i].events_classified = 0

(***************************************************************************)
(* Malformed candidates.                                                   *)
(***************************************************************************)
MalformedRuns == 1
\* discovery runs

cBadDate == Candidate(<<"A">>, BadDate, NoDate, SF)
cNoDate == Candidate(<<"C">>, NoDate, NoDate, SF)
cBlank == Candidate(<<" ">>, IsoDate(FebFirst), NoDate, SF)

MalformedPool == {cBadDate, cNoDate, cBlank, cWell}
MalformedOutputs == {Classification(8, "Workshop", <<"technical">>, "online")}

NextMalformed ==
    \/ /\ Len(logs) < MalformedRuns
       /\ \E platform \in supported_platforms :
              ApiDiscoverEvents(LastCookie, SF, platform, 0, 0)
    \/ DiscoveryStep(MalformedPool, MalformedOutputs)

SpecMalformed == Init /\ [][NextMalformed]_vars

\* the title is empty or the date is missing or cannot be parsed
Malformed(raw) ==
    \/ StoreTitle(raw) = <<>>
    \/ ~DateGiven(raw.date_time) /\ ~DateGiven(raw.date)
    \/ ~DateParses(DateStr(raw))

\* a row holds the candidate
Stored(evs, raw, platform) ==
    \E e \in evs : Triple(e) = <<StoreTitle(raw), ParseDate(DateStr(raw)), platform>>

\* the classification that the fallback gives
ByFallback(raw) ==
    /\ raw.classified
    /\ Classification(raw.ai_relevance_score, raw.category, raw.tags, raw.event_type)
         = FallbackClassification

\* the first run has processed a batch of one candidate with a malformed
\* date and one well-formed candidate, classified by the fallback
ScenarioBatch ==
    /\ logs = <<>>
    /\ run.pc = "store"
    /\ run.k > Len(run.raw_events)
    /\ Len(run.raw_events) = 2
    /\ \E i, j \in 1..2 :
          /\ i # j
          /\ ~DateParses(DateStr(run.raw_events[i]))
          /\ ~Malformed(run.raw_events[j])
          /\ ByFallback(run.raw_events[j])

ApiRuns == 1
\* discovery runs

ApiPlatforms == {"luma", "eventbrite"}
ApiMonths == {0, 12, 13}
ApiYears == {0, 9999}
ApiPool == {cWell, cBadDate, NotAnObject}

NextDiscoverApi ==
    \/ \E platform \in ApiPlatforms, month \in ApiMonths, year \in ApiYears :
          /\ Len(logs) < ApiRuns \/ DiscoverRejects(platform, month, year)
          /\ ApiDiscoverEvents(LastCookie, SF, platform, month, year)
    \/ DiscoveryStep(ApiPool, MalformedOutputs)

SpecDiscoverApi == Init /\ [][NextDiscoverApi]_vars

\* the handler has answered a discovery request
DiscoverAnswered(r) == r.op = "discover" /\ r.status # 0

\* the month and year of the request give no date range
NoDateRange(r) == ~MonthRangeValid(TargetYear(r.year, now), TargetMonth(r.month, now))

\* C10 (as the code has it): POST /discover-events answers 400 exactly when
\* the platform is not luma or meetup or the requested month and year give
\* no date range (both raise ValueError before the run starts), 500 exactly
\* when the started run fails, and 200 when it completes; a request with an
\* unsupported platform makes no external call and leaves the Event rows as
\* they are.
C10_DiscoverStatus ==
    [][/\ DiscoverAnswered(resp') =>
             /\ resp'.status = 400 <=>
                    (resp'.platform \notin supported_platforms \/ NoDateRange(resp'))
             /\ resp'.status = 500 <=> run'.pc = "failed"
             /\ resp'.status = 200 <=> run'.pc = "done"
       /\ \A platform \in ApiPlatforms \ supported_platforms :
             \A month \in ApiMonths, year \in ApiYears :
                ApiDiscoverEvents(LastCookie, SF, platform, month, year) =>
                    /\ resp'.status = 400
                    /\ run'.requests = 0
                    /\ run'.pc = "idle"
                    /\ events' = events
      ]_vars

\* C10 (as stated): a failure of a request with a supported platform is
\* answered with 500, and 400 is the answer to an unsupported platform.
C10_AsStated ==
    DiscoverAnswered(resp) /\ resp.status # 200 =>
        resp.status = IF resp.platform \in supported_platforms THEN 500 ELSE 400

\* an unsupported platform is refused after a run has failed
C10_RefusedAfterFailure ==
    /\ DiscoverAnswered(resp)
    /\ resp.status = 400
    /\ resp.platform \notin supported_platforms
    /\ Len(logs) = 1
    /\ ~logs[1].success

(***************************************************************************)
(* The events of a month.                                                  *)
(***************************************************************************)
QueryRuns == 1
\* discovery runs

cJanEnd == Candidate(<<"A">>, IsoDate(Instant(MinYearApi, 1, 31, 0)), NoDate, SF)
cNewYear == Candidate(<<"C">>, IsoDate(Instant(MinYearApi + 1, 1, 1, 0)), NoDate, <<"N", "Y">>)

QueryPool == {cJanEnd, cWell, cNewYear}
QueryOutputs ==
    {Classification(8, "Workshop", <<"technical">>, "online"),
     Classification(9, "Meetup", <<>>, "hybrid")}

\* query requests: month, year, location, category, min_relevance_score
\* (0: the parameter is not given)
QueryRequests ==
    {<<1, MinYearApi, <<>>, "", 0>>,
     <<1, MinYearApi, Lower(SF), "Workshop", 9>>,
     <<12, MinYearApi, <<>>, "", 0>>,
     <<12, MaxYearApi, <<>>, "Meetup", 0>>,
     <<13, MinYearApi, <<>>, "", 0>>,
     <<0, MinYearApi, <<>>, "", 0>>,
     <<1, MinYearApi - 1, <<>>, "", 0>>,
     <<1, MaxYearApi + 1, <<>>, "", 0>>}

NextQuery ==
    \/ /\ Len(logs) < QueryRuns
       /\ ApiDiscoverEvents(LastCookie, SF, "luma", 0, 0)
    \/ DiscoveryStep(QueryPool, QueryOutputs)
    \/ \E q \in QueryRequests :
          ApiGetEventsForMonth(LastCookie, q[1], q[2], q[3], q[4], q[5])

SpecQuery == Init /\ [][NextQuery]_vars

\* GET /events has answered with the events of a month
Queried(r) == r.op = "events" /\ r.queried

\* the instant lies in the calendar month
InMonth(t, month, year) == YearOf(t) = year /\ MonthOf(t) = month

\* C2: every event that get_events_for_month returns for a valid month and
\* year has a date_time within that calendar month.
C2_OnlyEventsOfTheMonth ==
    Queried(resp) =>
        \A i \in DOMAIN resp.data.events :
            InMonth(ParseDate(resp.data.events[i].dateTime), resp.month, resp.year)

\* a query has returned an event of its month and left out a stored event
\* at the first instant of the next month
C2_BoundaryLeftOut ==
    /\ Queried(resp)
    /\ resp.data.totalEvents > 0
    /\ \E e \in events :
          /\ e.date_time = NextMonthStart(resp.year, resp.month)
          /\ e.ai_relevance_score >= resp.floor
          /\ resp.location = <<>> /\ resp.category = ""

RECURSIVE BucketSizes(_, _)
\* the sum of the sizes of the buckets of the categories cs
BucketSizes(buckets, cs) ==
    IF cs = <<>> THEN 0 ELSE Len(buckets[Head(cs)]) + BucketSizes(buckets, Tail(cs))

\* the buckets that hold the event
BucketsOf(buckets, e) ==
    {c \in Range(event_categories) : \E j \in DOMAIN buckets[c] : buckets[c][j] = e}

\* C5: in a result of get_events_for_month every returned event is in
\* exactly one of the six buckets of eventsByCategory, and the sizes of the
\* buckets add up to totalEvents.
C5_BucketsPartition ==
    Queried(resp) =>
        /\ \A i \in DOMAIN resp.data.events :
              Cardinality(BucketsOf(resp.data.eventsByCategory, resp.data.events[i])) = 1
        /\ BucketSizes(resp.data.eventsByCategory, event_categories) = resp.data.totalEvents

\* C8: GET /events/{month}/{year} answers 400 when month is outside 1..12
\* or year outside 2024..2030, and queries no events then.
C8_BadMonthYear400 ==
    resp.op = "events" /\ ~MonthYearValid(resp.month, resp.year) =>
        resp.status = 400 /\ ~resp.queried

(***************************************************************************)
(* Watching events.                                                        *)
(***************************************************************************)
WatchRuns == 1
\* discovery runs
MaxSessions == 1
\* sessions created
MaxEventId == 1
\* event ids that requests name

Cookies == 0..tokens
WatchEventIds == 1..MaxEventId

\* a request that creates a session is made while sessions are left
SessionLeft(cookie) == CookieValid(cookie) \/ tokens < MaxSessions

NextWatch ==
    \/ /\ Len(logs) < WatchRuns
       /\ ApiDiscoverEvents(LastCookie, SF, "luma", 0, 0)
    \/ DiscoveryStep({cWell, cBadDate}, MalformedOutputs)
    \/ \E cookie \in Cookies, event_id \in WatchEventIds, watch_status, fk \in BOOLEAN :
          /\ SessionLeft(cookie)
          /\ ApiToggleWatch(cookie, event_id, watch_status, fk)

SpecWatch == Init /\ [][NextWatch]_vars

\* the step is the toggle request that resp' answers
ToggleAnswered ==
    /\ resp'.op = "watch"
    /\ \E fk \in BOOLEAN :
          ApiToggleWatch(resp'.cookie, resp'.event_id, resp'.watch_status, fk)

\* C3: marking a pair (session_id, event_id) that is watched reports
\* success and leaves the WatchedEvent rows as they are, with exactly one
\* row for the pair; unmarking a pair that is not watched reports success
\* and leaves the rows as they are.
C3_ToggleIdempotent ==
    [][ToggleAnswered =>
          LET rows == WatchRows(watched, resp'.sid, resp'.event_id)
          IN  /\ resp'.watch_status /\ rows # {} =>
                    /\ resp'.success
                    /\ watched' = watched
                    /\ Cardinality(WatchRows(watched', resp'.sid, resp'.event_id)) = 1
              /\ ~resp'.watch_status /\ rows = {} =>
                    /\ resp'.success
                    /\ watched' = watched
      ]_vars

\* a stored event that the session watches has been marked again
C3_MarkedAgain ==
    /\ resp.op = "watch"
    /\ resp.watch_status
    /\ resp.was_watched
    /\ resp.event_id \in EventIds(events)
    /\ resp.cookie = resp.sid

\* C9: POST /events/watch answers 400 when mark_event_watched or
\* unmark_event_watched returns false.
C9_FailedToggle400 ==
    resp.op = "watch" /\ ~resp.success => resp.status = 400

(***************************************************************************)
(* Sessions.                                                               *)
(***************************************************************************)
MaxSkew == 1
\* ticks past the lifetime of a session

Berlin == <<"B", "e", "r", "l", "i", "n">>

\* the bodies of PUT /preferences: the entries that are not null
PreferenceUpdates == {<<>>, [theme |-> "light"], [location |-> Berlin]}

\* the instants of the requests: the start, and the end of the lifetime of
\* a session created at the start and up to MaxSkew ticks after it
RequestTimes == {0} \cup {Timedelta(SessionLifetimeDays) + k : k \in 0..MaxSkew}

NextSessions ==
    \/ \E cookie \in Cookies, event_id \in WatchEventIds, watch_status, fk \in BOOLEAN :
          /\ SessionLeft(cookie)
          /\ ApiToggleWatch(cookie, event_id, watch_status, fk)
    \/ \E cookie \in Cookies : ApiGetPreferences(cookie)
    \/ \E cookie \in Cookies, preferences_update \in PreferenceUpdates :
          ApiUpdatePreferences(cookie, preferences_update)
    \/ \E t \in RequestTimes : t > now /\ Tick(t - now, t)

SpecSessions == Init /\ [][NextSessions]_vars

\* the step is the GET /preferences request that resp' answers
PreferencesAnswered == resp'.op = "preferences" /\ ApiGetPreferences(resp'.cookie)

\* C4: is_valid_session on a session created more than 30 days ago returns
\* false and leaves no UserSession row of that id; on an id without a row
\* it returns false and leaves the rows as they are.
C4_ExpiredSessionRemoved ==
    [][PreferencesAnswered =>
          LET rows == SessionRows(sessions, resp'.cookie)
          IN  /\ (\E s \in rows : Expired(s, now)) =>
                    ~resp'.valid /\ SessionRows(sessions', resp'.cookie) = {}
              /\ (resp'.cookie # NoCookie /\ rows = {}) =>
                    ~resp'.valid /\ sessions' = sessions
      ]_vars

\* the step is the PUT /preferences request that resp' answers
UpdateAnswered == resp'.op = "update" /\ ApiUpdatePreferences(resp'.cookie, resp'.update)

\* C7: a successful update_session_preferences leaves the stored map equal
\* to the map before with the entries of the call laid over it (the keys
\* that the call gives hold its values, every other key keeps its value);
\* for a session id without a row the call changes no row.
C7_ShallowMerge ==
    [][UpdateAnswered =>
          LET rows == SessionRows(sessions, resp'.cookie)
          IN  /\ resp'.status = 200 =>
                    \A s \in rows : \E u \in SessionRows(sessions', resp'.cookie) :
                        u.preferences = DictUpdate(s.preferences, resp'.update)
              /\ rows = {} => resp'.status # 200 /\ sessions' = sessions
      ]_vars

(***************************************************************************)
(* Session cookies on the endpoints of both routers.                       *)
(***************************************************************************)
MaxCookies == 2
\* sessions created in a behaviour

\* a request that creates a session is made while cookies are left
CookieLeft(cookie) == CookieValid(cookie) \/ tokens < MaxCookies

\* the instants of the requests: the start, and the first tick after the
\* lifetime of a session created at the start
CookieTimes == {0, Timedelta(SessionLifetimeDays) + 1}

NextCookies ==
    \/ \E cookie \in Cookies, fk \in BOOLEAN :
          /\ CookieLeft(cookie)
          /\ ApiToggleWatch(cookie, NextEventId(events), TRUE, fk)
    \/ \E cookie \in Cookies :
          /\ CookieLeft(cookie)
          /\ ApiGetEventsForMonth(cookie, 1, MinYearApi, <<>>, "", DefaultMinRelevance)
    \/ \E cookie \in Cookies :
          /\ CookieLeft(cookie)
          /\ ApiDiscoverEvents(cookie, SF, "eventbrite", 0, 0)
    \/ \E cookie \in Cookies : ApiGetPreferences(cookie)
    \/ \E cookie \in Cookies : ApiUpdatePreferences(cookie, [theme |-> "light"])
    \/ \E cookie \in Cookies : ApiGetSessionStats(cookie)
    \/ \E cookie \in Cookies : ApiClearSession(cookie)
    \/ \E cookie \in Cookies :
          /\ tokens < MaxCookies
          /\ ApiCreateSession(cookie, <<>>, <<>>)
    \/ \E t \in CookieTimes : t > now /\ Tick(t - now, t)

SpecCookies == Init /\ [][NextCookies]_vars

\* the step is the request to an endpoint of api-events.py that resp' answers
EventsEndpointAnswered ==
    \/ /\ resp'.op = "watch"
       /\ \E fk \in BOOLEAN :
             ApiToggleWatch(resp'.cookie, resp'.event_id, resp'.watch_status, fk)
    \/ /\ resp'.op = "events"
       /\ ApiGetEventsForMonth(resp'.cookie, resp'.month, resp'.year, resp'.location,
                               resp'.category, resp'.floor)
    \/ /\ resp'.op = "discover"
       /\ ApiDiscoverEvents(resp'.cookie, SF, resp'.platform, resp'.month, resp'.year)

\* the step is the request to an endpoint of api-users.py with the
\* get_session_id dependency that resp' answers
SessionEndpointAnswered ==
    \/ PreferencesAnswered
    \/ UpdateAnswered
    \/ resp'.op = "stats" /\ ApiGetSessionStats(resp'.cookie)
    \/ resp'.op = "clear" /\ ApiClearSession(resp'.cookie)

\* the step is the POST /session/create request that resp' answers
CreateAnswered ==
    resp'.op = "create" /\ ApiCreateSession(resp'.cookie, resp'.location, resp'.preferences)

SessionIds(ss) == {s.session_id : s \in ss}

\* the sessions that the step creates
Created == SessionIds(sessions') \ SessionIds(sessions)

\* C11: on the endpoints that resolve the session through get_session_id, a
\* request without a cookie or with a cookie of a missing or expired session
\* creates exactly one session on the events endpoints and is answered 401
\* and creates none on the users endpoints, and a request with a valid
\* cookie creates none; POST /session/create creates one session whatever
\* the cookie of the request.
C11_SessionOnDemand ==
    [][LET valid == IsValidSession(sessions, resp'.cookie, now)
       IN  /\ EventsEndpointAnswered =>
                 IF valid THEN Created = {} /\ tokens' = tokens
                          ELSE Cardinality(Created) = 1 /\ tokens' = tokens + 1
           /\ SessionEndpointAnswered =>
                 /\ Created = {}
                 /\ tokens' = tokens
                 /\ resp'.status = 401 <=> ~valid
           /\ CreateAnswered => Cardinality(Created) = 1
      ]_vars

\* C11 as stated: on every endpoint of api-users.py a request without a
\* valid cookie is answered 401, and no request creates a session there
C11_AsStated ==
    [][LET valid == IsValidSession(sessions, resp'.cookie, now)
       IN  SessionEndpointAnswered \/ CreateAnswered =>
              /\ Created = {}
              /\ ~valid => resp'.status = 401
      ]_vars

\* the cookie of an earlier session, expired by now, has been answered by an
\* events endpoint with a session of its own
C11_ExpiredCookieReplaced ==
    /\ resp.op = "watch"
    /\ resp.cookie # NoCookie
    /\ resp.sid # resp.cookie
    /\ resp.sid \in SessionIds(sessions)
    /\ now > Timedelta(SessionLifetimeDays)

(***************************************************************************)
(* Calls of mark_event_watched and unmark_event_watched side by side.      *)
(***************************************************************************)
MaxCalls == 2
\* calls under way at a time

\* the session of the calls
Watcher == 1

NextWatchCalls ==
    \/ \E op \in {"mark", "unmark"}, event_id \in WatchEventIds :
          /\ Len(calls) < MaxCalls
          /\ BeginWatchCall(op, Watcher, event_id, FALSE)
    \/ \E i \in 1..Len(calls) : WatchLookup(i)
    \/ \E i \in 1..Len(calls) : WatchCommit(i)
    \/ Tick(1, MaxClock)

SpecWatchCalls == Init /\ [][NextWatchCalls]_vars

\* C12: whatever the order of the steps of the calls of mark_event_watched
\* and unmark_event_watched under way, watched_events never holds more
\* than one row of a (session_id, event_id) pair.
C12_OneRowPerPair ==
    \A r \in watched : Cardinality(WatchRows(watched, r.session_id, r.event_id)) = 1

\* a mark that found no row at its lookup has been refused at its commit:
\* another call inserted the row of the pair in between
C12_SecondInsertRefused ==
    /\ resp.op = "mark"
    /\ ~resp.success
    /\ watched # {}

(***************************************************************************)
(* Expiry and the refresh of last_active.                                  *)
(***************************************************************************)
\* the instants of the requests: the start, the last tick of the lifetime
\* of a session created at the start, and the first tick after it
ExpiryTimes == {0, Timedelta(SessionLifetimeDays), Timedelta(SessionLifetimeDays) + 1}

NextExpiry ==
    \/ \E cookie \in Cookies, watch_status \in BOOLEAN :
          /\ SessionLeft(cookie)
          /\ ApiToggleWatch(cookie, NextEventId(events), watch_status, FALSE)
    \/ \E cookie \in Cookies : ApiGetPreferences(cookie)
    \/ \E cookie \in Cookies : ApiUpdatePreferences(cookie, [theme |-> "light"])
    \/ \E t \in ExpiryTimes : t > now /\ Tick(t - now, t)

SpecExpiry == Init /\ [][NextExpiry]_vars

\* the step is a request that resp' answers: each of them looks the session
\* of its cookie up
LookupAnswered ==
    \/ PreferencesAnswered
    \/ UpdateAnswered
    \/ ToggleAnswered

\* the answer tells that the cookie was found invalid
ReportedInvalid(r) ==
    IF r.op = "watch" THEN r.sid # r.cookie ELSE ~r.valid

\* C13: no step changes created_at of a session; every request sets
\* last_active of the session that its cookie names to the time of the
\* request; and a validity check made more than 30 days after created_at
\* reports the session invalid, whatever its last_active.
C13_ExpiryByCreatedAt ==
    [][/\ \A s \in sessions : \A u \in SessionRows(sessions', s.session_id) :
              u.created_at = s.created_at
       /\ LookupAnswered =>
              /\ \A u \in SessionRows(sessions', resp'.cookie) :
                     SessionRows(sessions, resp'.cookie) # {} => u.last_active = now
              /\ \A s \in SessionRows(sessions, resp'.cookie) :
                     now > s.created_at + Timedelta(SessionLifetimeDays)
                        => ReportedInvalid(resp')
      ]_vars

\* a session whose last_active was refreshed after its creation has been
\* reported invalid past its lifetime, and its row still shows the refresh
C13_RefreshedYetInvalid ==
    /\ resp.op = "preferences"
    /\ ~resp.valid
    /\ \E s \in SessionRows(sessions, resp.cookie) :
          /\ s.last_active > s.created_at
          /\ now > s.created_at + Timedelta(SessionLifetimeDays)

(***************************************************************************)
(* The removal of expired sessions that own watched rows.                  *)
(***************************************************************************)
NextCleanup ==
    \/ \E cookie \in Cookies, watch_status, fk \in BOOLEAN :
          /\ CookieLeft(cookie)
          /\ ApiToggleWatch(cookie, NextEventId(events), watch_status, fk)
    \/ \E cookie \in Cookies : ApiGetPreferences(cookie)
    \/ Lifespan
    \/ \E t \in CookieTimes : t > now /\ Tick(t - now, t)

SpecCleanup == Init /\ [][NextCleanup]_vars

\* the step is the start of the process that resp' answers
LifespanAnswered == resp'.op = "startup" /\ Lifespan

\* the sessions that the step is to remove: the expired session of the
\* cookie (is_valid_session), all expired sessions (cleanup_expired_sessions)
ToRemove ==
    IF LifespanAnswered THEN {s \in sessions : Expired(s, now)}
    ELSE IF PreferencesAnswered
      THEN {s \in SessionRows(sessions, resp'.cookie) : Expired(s, now)}
      ELSE {}

\* C14: is_valid_session and cleanup_expired_sessions remove an expired
\* session together with its WatchedEvent rows: after the step neither the
\* UserSession row nor a WatchedEvent row of its session_id is left, and no
\* WatchedEvent row refers to a session_id without a UserSession row.
C14_RemovedWithWatchedRows ==
    [][/\ \A s \in ToRemove :
              /\ SessionRows(sessions', s.session_id) = {}
              /\ \A r \in watched' : r.session_id # s.session_id
       /\ \A r \in watched' : SessionRows(sessions', r.session_id) # {}
      ]_vars

(***************************************************************************)
(* The discovery log.                                                      *)
(***************************************************************************)
\* the step ends a started run of discover_events (it returns or raises)
RunEnds == run.pc \in {"search", "classify", "store"} /\ run'.pc \in {"done", "failed"}

\* the step is an invocation of discover_events that raises ValueError
\* before the run starts
RunRejected ==
    /\ resp'.op = "discover"
    /\ resp'.raised = "ValueError"
    /\ ApiDiscoverEvents(LastCookie, SF, resp'.platform, resp'.month, resp'.year)

MonthEndRuns == 1
\* discovery runs

\* an event later on 31 January
cJanLate == Candidate(<<"A">>, IsoDate(Instant(MinYearApi, 1, 31, 1)), NoDate, SF)

MonthEndPool == {cJanEnd, cJanLate}

\* query requests: month, year, location, category, min_relevance_score
MonthEndRequests ==
    {<<1, MinYearApi, <<>>, "", 0>>,
     <<1, MinYearApi, <<>>, "", 9>>,
     <<2, MinYearApi, <<>>, "", 0>>}

NextMonthEnd ==
    \/ /\ Len(logs) < MonthEndRuns
       /\ ApiDiscoverEvents(LastCookie, SF, "luma", 0, 0)
    \/ DiscoveryStep(MonthEndPool, MalformedOutputs)
    \/ \E q \in MonthEndRequests :
          ApiGetEventsForMonth(LastCookie, q[1], q[2], q[3], q[4], q[5])

SpecMonthEnd == Init /\ [][NextMonthEnd]_vars

\* the step is the GET /events/{month}/{year} request that resp' answers
QueryAnswered ==
    /\ resp'.op = "events"
    /\ ApiGetEventsForMonth(resp'.cookie, resp'.month, resp'.year, resp'.location,
                            resp'.category, resp'.floor)

\* the ids of the events of a result
ReturnedIds(data) == {data.events[i].id : i \in DOMAIN data.events}

\* C16: a query without location and category returns every active stored
\* event whose date_time lies in the calendar month of the request, at any
\* time of any of its days, and whose ai_relevance_score is at least the
\* floor.
C16_EveryEventOfTheMonth ==
    [][QueryAnswered /\ resp'.queried /\ resp'.location = <<>> /\ resp'.category = "" =>
          \A e \in events :
              /\ e.is_active
              /\ InMonth(e.date_time, resp'.month, resp'.year)
              /\ e.ai_relevance_score >= resp'.floor
              => e.id \in ReturnedIds(resp'.data)
      ]_vars

(***************************************************************************)
(* The category filter.                                                    *)
(***************************************************************************)
CategoryRuns == 1
\* discovery runs

\* an event on 1 January with a title of its own
cJanStart == Candidate(<<"C">>, IsoDate(JanFirst), NoDate, SF)

CategoryPool == {cJanEnd, cJanStart, cJanLate}

\* query requests: month, year, location, category, min_relevance_score
CategoryRequests ==
    {<<1, MinYearApi, <<>>, "", 0>>,
     <<1, MinYearApi, <<>>, "Workshop", 0>>,
     <<1, MinYearApi, <<>>, "Talk", 0>>,
     <<1, MinYearApi, <<>>, "Meetup", 0>>}

NextCategory ==
    \/ /\ Len(logs) < CategoryRuns
       /\ ApiDiscoverEvents(LastCookie, SF, "luma", 0, 0)
    \/ DiscoveryStep(CategoryPool, QueryOutputs)
    \/ \E q \in CategoryRequests :
          ApiGetEventsForMonth(LastCookie, q[1], q[2], q[3], q[4], q[5])

SpecCategory == Init /\ [][NextCategory]_vars

\* every event of the result has the category of the request, and the
\* result is empty when no stored event has it
FilteredBy(category, data, evs) ==
    /\ \A i \in DOMAIN data.events : data.events[i].category = category
    /\ (\A e \in evs : e.category # category) => data.events = <<>>

\* C17: when the category of the request is one of the six of
\* event_categories, every returned event has exactly that category, and
\* the result is empty when no stored event has it; any other category is
\* ignored: the result is that of the same request without a category.
C17_CategoryFilter ==
    [][QueryAnswered /\ resp'.queried /\ resp'.category # "" =>
          IF resp'.category \in Range(event_categories)
            THEN FilteredBy(resp'.category, resp'.data, events)
            ELSE resp'.data = GetEventsForMonth(events, watched, resp'.sid, resp'.location,
                                                resp'.month, resp'.year, "", resp'.floor, now)
      ]_vars

\* C17 as stated: whatever category is supplied, every returned event has
\* it, and the result is empty when no stored event has it
C17_AsStated ==
    [][QueryAnswered /\ resp'.queried /\ resp'.category # "" =>
          FilteredBy(resp'.category, resp'.data, events)
      ]_vars

\* a query for Workshop has returned an event and left out a stored event
\* of another category
C17_OtherCategoryLeftOut ==
    /\ Queried(resp)
    /\ resp.category = "Workshop"
    /\ resp.data.totalEvents > 0
    /\ Quiescent
    /\ \E e \in events : e.category # "Workshop" /\ e.id \notin ReturnedIds(resp.data)

(***************************************************************************)
(* The summaries that a run returns.                                       *)
(***************************************************************************)
\* the candidate that StoreStep is about to process gets a row or matches
\* one
SeesStorable ==
    /\ run.pc = "store"
    /\ run.k <= Len(run.raw_events)
    /\ Storable(run.raw_events[run.k])

\* C18: a store step on a candidate that is inserted or that matches a
\* stored event and updates it adds one summary to the list that the run
\* returns, and the list is what the handler answers and what the log
\* counts as events_classified.
C18_ResightedReturned ==
    [][/\ (StoreStep /\ SeesStorable) =>
              Len(run'.processed_events) = Len(run.processed_events) + 1
       /\ FinishDiscovery =>
              /\ resp'.events = run.processed_events
              /\ logs'[Len(logs')].events_classified = Len(run.processed_events)
      ]_vars

(***************************************************************************)
(* Discovery runs side by side: their calls of _process_and_store_event.   *)
(***************************************************************************)
\* the candidates as search_events returns them (classified by the fallback)
StoreCallPool ==
    {EventUpdate(c, FallbackClassification) : c \in {cWell, cAgain, cBadDate}}

NextStoreCalls ==
    \/ \E raw_event \in StoreCallPool, platform \in supported_platforms :
          /\ Len(calls) < MaxCalls
          /\ Cardinality(events) < MaxCalls
          /\ BeginStoreCall(raw_event, platform)
    \/ \E i \in 1..Len(calls) : StoreLookup(i)
    \/ \E i \in 1..Len(calls) : StoreCommit(i)

SpecStoreCalls == Init /\ [][NextStoreCalls]_vars

\* C19: a call of _process_and_store_event that found no row at its
\* existence check inserts its row at the commit whatever rows the table
\* holds by then: neither the code nor the schema refuses a second row of
\* the same (title, date_time, platform).
C19_SecondInsertNotRefused ==
    [][\A i \in 1..Len(calls) :
          StoreCommit(i) =>
              /\ Cardinality(events') = Cardinality(events) + 1
              /\ \E e \in events' \ events :
                     Triple(e) = Triple(NewEvent(events, calls[i].raw_event,
                                                 calls[i].platform, now))
      ]_vars

\* two runs checked before either committed: two rows share the triple
C19_TwoRowsOneTriple ==
    \E a, b \in events : a # b /\ Triple(a) = Triple(b)

(***************************************************************************)
(* The failure of the search step.                                         *)
(***************************************************************************)
\* the step makes the started run fail
RunFails == run.pc \in {"search", "classify", "store"} /\ run'.pc = "failed"

\* the results collected so far are all objects
AllObjects(evs) == \A j \in DOMAIN evs : evs[j].obj

\* C20: when search_events raises, the run has stored and stores no Event
\* row, one log row with success=false and the error message is added, and
\* the error reaches the caller (the handler answers 500); a query that
\* fails (the call raises or the content is no JSON) does not make the
\* search step raise.
C20_SearchFailure ==
    [][/\ RunFails =>
              /\ run.pc = "search"
              /\ events' = events
              /\ Len(logs') = Len(logs) + 1
              /\ ~logs'[Len(logs')].success
              /\ logs'[Len(logs')].error_message = resp'.raised
              /\ resp'.raised # "none"
              /\ resp'.status = 500
       /\ run.pc = "search" => events' = events
       /\ \A r \in SearchResponses(ApiPool) :
              SearchStep(r) /\ r.kind # "json" /\ AllObjects(run.all_events)
                  => run'.pc # "failed"
      ]_vars

\* a run has failed in its search step after a query of its own failed,
\* and no Event row is stored
C20_FailedRunLogged ==
    /\ run.pc = "failed"
    /\ events = {}
    /\ Len(logs) = 1
    /\ ~logs[1].success
    /\ resp.status = 500

(***************************************************************************)
(* The scores that the classifier gives.                                   *)
(***************************************************************************)
ScoreRuns == 1
\* discovery runs

\* the classifier's JSON is taken as it comes: scores below the gate, at
\* the ends of the scale and past it
ScoreOutputs ==
    {Classification(score, "Talk", <<>>, "online") : score \in {4, 5, 10, 11}}

NextScore ==
    \/ /\ Len(logs) < ScoreRuns
       /\ ApiDiscoverEvents(LastCookie, SF, "luma", 0, 0)
    \/ DiscoveryStep({cWell, cBadDate}, ScoreOutputs)

SpecScore == Init /\ [][NextScore]_vars

\* C21: every stored Event has an ai_relevance_score of at least 5 and at
\* most 10.
C21_ScoreInRange ==
    \A e \in events : e.ai_relevance_score \in 5..10

(***************************************************************************)
(* Failures of the classifier.                                             *)
(***************************************************************************)
\* the candidate with the fallback of classify_event laid over it
WithFallback(e) ==
    [e EXCEPT !.classified = TRUE, !.ai_relevance_score = 5, !.category = "Other",
              !.tags = <<>>, !.event_type = "unknown"]

\* the loop of search_events goes on after the candidate: to the next
\* candidate, or to the end of search_events after the last one
LoopGoesOn ==
    IF run.k < Len(run.unique_events)
      THEN run'.pc = "classify" /\ run'.k = run.k + 1
      ELSE run'.pc = "store"

\* C22: a classification that fails does not end search_events: when the
\* answer is no JSON the candidate gets the fallback (5, Other, no tags,
\* unknown) and is kept; when the request raises the candidate alone is
\* dropped; in both cases the candidates classified so far are kept and
\* the loop goes on with the next candidate.
C22_ClassifyFailureContained ==
    [][\A r \in ClassifyResponses(MalformedOutputs) :
          ClassifyStep(r) /\ r.kind # "json" =>
              /\ r.kind = "text" =>
                    run'.raw_events =
                        Append(run.raw_events, WithFallback(run.unique_events[run.k]))
              /\ r.kind = "error" => run'.raw_events = run.raw_events
              /\ LoopGoesOn
              /\ logs' = logs
      ]_vars

\* of two candidates of a run, one was dropped when its request raised and
\* the other is kept with the fallback
C22_OneDroppedOneFallback ==
    /\ run.pc = "store"
    /\ run.requests = NumQueries + 2
    /\ Len(run.raw_events) = 1
    /\ run.raw_events[1].category = "Other"
    /\ run.raw_events[1].ai_relevance_score = 5

(***************************************************************************)
(* Failures of search queries.                                             *)
(***************************************************************************)
\* C23: every query of search_events is answered by one request; a query
\* whose call raises or whose answer is no JSON adds no candidate, the
\* candidates of every other query are appended in the order of the
\* queries, the next query is issued whatever the answer, and after the
\* last of the queries all candidates collected go to deduplication.
C23_FailedQuerySkipped ==
    [][\A r \in SearchResponses(MalformedPool) :
          SearchStep(r) =>
              /\ run'.requests = run.requests + 1
              /\ run'.requests = run.q
              /\ run'.all_events =
                     run.all_events \o (IF r.kind = "json" THEN r.events ELSE <<>>)
              /\ IF run.q < NumQueries
                   THEN run'.pc = "search" /\ run'.q = run.q + 1
                   ELSE /\ run'.pc \in {"classify", "store"}
                        /\ run'.unique_events = DeduplicateEvents(run'.all_events)
      ]_vars

\* the queries of a run have all been issued, some without a result, and
\* the candidates of the others have reached deduplication
C23_AllQueriesIssued ==
    /\ run.pc = "classify"
    /\ run.requests = NumQueries
    /\ Len(run.all_events) = 2
    /\ Len(run.unique_events) = 2

(***************************************************************************)
(* Deduplication of the candidates.                                        *)
(***************************************************************************)
DedupRuns == 1
\* discovery runs

\* two events of one title on different days, their dates given under "date"
cDayOne == Candidate(<<"A">>, NoDate, TextDate(JanFirst), SF)
cDayTwo == Candidate(<<"a", " ">>, NoDate, TextDate(FebFirst), SF)

DedupPool == {cDayOne, cDayTwo, cWell}

NextDedup ==
    \/ /\ Len(logs) < DedupRuns
       /\ ApiDiscoverEvents(LastCookie, SF, "luma", 0, 0)
    \/ DiscoveryStep(DedupPool, MalformedOutputs)

SpecDedup == Init /\ [][NextDedup]_vars

\* the lower-cased trimmed title and the date of the candidate (date_time,
\* or date: the date that _process_and_store_event parses)
TitleAndDate(e) == <<Strip(Lower(e.title)), DateStr(e)>>

\* the step is the end of the query loop: _deduplicate_events is applied
Deduplicated == run.pc = "search" /\ run'.pc \in {"classify", "store"}

\* C24: the result of _deduplicate_events holds no two candidates of one
\* title and date, holds a candidate for the title and date of every input
\* candidate, the first of them, in the order of the input, and is left as
\* it is when _deduplicate_events is applied to it; candidates with the
\* same title and different dates are all kept.
C24_FirstOfEachTitleAndDate ==
    [][Deduplicated =>
          LET input == run'.all_events
              output == run'.unique_events
              First(i) == \A j \in 1..(i - 1) : TitleAndDate(input[j]) # TitleAndDate(input[i])
              firsts == SelectSeq([i \in DOMAIN input |-> <<i, input[i]>>],
                                  LAMBDA p : First(p[1]))
          IN  /\ output = [k \in DOMAIN firsts |-> firsts[k][2]]
              /\ \A i, j \in DOMAIN output :
                     i # j => TitleAndDate(output[i]) # TitleAndDate(output[j])
              /\ \A i \in DOMAIN input : \E j \in DOMAIN output :
                     TitleAndDate(output[j]) = TitleAndDate(input[i])
              /\ DeduplicateEvents(output) = output
      ]_vars

(***************************************************************************)
(* The cache of classifications.                                           *)
(***************************************************************************)
\* the candidate that the classification loop is about to classify
Classifying == run.unique_events[run.k]

\* the result of search_events after a candidate that is classified as cl
KeptIfRelevant(cl) ==
    IF cl.ai_relevance_score >= RelevanceGate
      THEN Append(run.raw_events, EventUpdate(Classifying, cl))
      ELSE run.raw_events

SameTitleBefore ==
    {i \in DOMAIN run.raw_events : run.raw_events[i].title = Classifying.title}

RequestRuns == 1

\* a coroutine that would send without awaiting
NotAwaiting(pc) == pc

\* await: the position of the coroutine while its request is on the wire
Awaiting(pc) == IF pc = "search" THEN "await_search" ELSE "await_classify"

\* the position where the coroutine resumes
Resumed(rn) ==
    [rn EXCEPT !.pc = IF @ = "await_search" THEN "search" ELSE "classify"]

\* the requests on the wire
InFlight == {i \in DOMAIN calls : calls[i].op = "post"}

\* client.post of _execute_search and of classify_event: the request
\* leaves; classify_event sends one only for a title without cache entry
SendRequest ==
    /\ run.pc \in {"search", "classify"}
    /\ run.pc = "classify" => ClassifyCalls(cache, run.unique_events[run.k])
    /\ calls' = Append(calls, [op |-> "post", pc |-> "sent", api |-> run.pc,
                                q |-> run.q, k |-> run.k])
    /\ run' = [run EXCEPT !.pc = Awaiting(@)]
    /\ UNCHANGED <<now, events, watched, sessions, logs, tokens, cache, resp>>

\* the answer of a search request is back and the loop goes on
ReceiveSearch(r) ==
    /\ run.pc = "await_search"
    /\ \E i \in InFlight :
           /\ calls[i].api = "search"
           /\ calls' = Returned(i)
    /\ SearchEffect(Resumed(run), r)
    /\ UNCHANGED <<now, events, watched, sessions, tokens, cache>>

\* the answer of a classification request is back and the loop goes on
ReceiveClassify(r) ==
    /\ run.pc = "await_classify"
    /\ \E i \in InFlight :
           /\ calls[i].api = "classify"
           /\ calls' = Returned(i)
    /\ ClassifyEffect(Resumed(run), r)
    /\ UNCHANGED <<now, events, watched, sessions, logs, tokens, resp>>

NextRequests ==
    \/ /\ Len(logs) < RequestRuns
       /\ ApiDiscoverEvents(LastCookie, SF, "luma", 0, 0)
    \/ SendRequest
    \/ \E r \in SearchResponses(MalformedPool) : ReceiveSearch(r)
    \/ \E r \in ClassifyResponses(MalformedOutputs) : ReceiveClassify(r)
    \/ ClassifyFromCache
    \/ StoreStep
    \/ FinishDiscovery

SpecRequests == Init /\ [][NextRequests]_vars

\* C26: within one discovery run at most one request is on the wire; a
\* search query is on the wire only when all queries before it have been
\* answered and no classification has been asked for; a classification
\* request is on the wire only after all search queries have been
\* answered and all classification requests before it have been answered.
C26_OneRequestInFlight ==
    /\ Cardinality(InFlight) <= 1
    /\ \A i \in InFlight :
           /\ calls[i].api = "search" =>
                  /\ run.pc = "await_search"
                  /\ calls[i].q = run.q
                  /\ run.requests = run.q - 1
                  /\ run.unique_events = <<>>
           /\ calls[i].api = "classify" =>
                  /\ run.pc = "await_classify"
                  /\ run.q = NumQueries
                  /\ run.requests >= NumQueries
                  /\ calls[i].k = run.k

\* the second classification request of a run is on the wire
C26_SecondClassificationInFlight ==
    /\ InFlight # {}
    /\ \A i \in InFlight : calls[i].api = "classify"
    /\ run.requests = NumQueries + 1
    /\ run.k = 2

(***************************************************************************)
(* Discovery requests of one client for two locations, on a supported and *)
(* on an unsupported platform.                                             *)
(***************************************************************************)
FrameRuns == 1
FrameLocations == {SF, Berlin}

NextFrame ==
    \/ \E location \in FrameLocations, platform \in ApiPlatforms :
          /\ Len(logs) < FrameRuns \/ platform \notin supported_platforms
          /\ ApiDiscoverEvents(LastCookie, location, platform, 0, 0)
    \/ DiscoveryStep({cWell, cBadDate}, MalformedOutputs)

SpecFrame == Init /\ [][NextFrame]_vars

\* the step is a discovery request that is answered 400 for its platform
RejectedForPlatform ==
    /\ resp'.op = "discover"
    /\ resp'.status = 400
    /\ resp'.platform \notin supported_platforms
    /\ \E location \in FrameLocations :
           ApiDiscoverEvents(resp'.cookie, location, resp'.platform, resp'.month, resp'.year)

\* C27: a POST /discover-events request that is answered 400 for an
\* unsupported platform leaves the events, the watch rows and the logs as
\* they are, and every session stored before the request keeps its location
\* field and its preferences.
C27_RejectedLeavesStored ==
    [][RejectedForPlatform =>
          /\ UNCHANGED <<events, watched, logs>>
          /\ \A s \in sessions :
                 \E t \in SessionRows(sessions', s.session_id) :
                     /\ t.location = s.location
                     /\ t.preferences = s.preferences
      ]_vars

\* C28: in every reachable state the location field of each stored session
\* equals the "location" entry of its preferences.
C28_LocationIsPreference ==
    \A s \in sessions :
        /\ "location" \in DOMAIN s.preferences
        /\ s.location = s.preferences.location

(***************************************************************************)
(* Two clients that mark, unmark and list the events of one discovery run. *)
(***************************************************************************)
IsolationRuns == 1
IsolationSessions == 2

\* a second event of the same title on the next day
cOther == Candidate(<<"A">>, IsoDate(Instant(MinYearApi, 2, 2, 0)), NoDate, SF)

\* a query is answered with one of the two candidates or with text, and
\* the classifier with its JSON
IsolationAnswers ==
    {[kind |-> "text", events |-> <<>>]}
        \cup {[kind |-> "json", events |-> <<c>>] : c \in {cWell, cOther}}
IsolationOutputs == {[kind |-> "json", json |-> o] : o \in MalformedOutputs}

\* the clients list and mark the events once the runs are over; a request
\* that creates a session is made while sessions are left
IsolatedLeft(cookie) ==
    /\ Len(logs) = IsolationRuns
    /\ CookieValid(cookie) \/ tokens < IsolationSessions

NextIsolation ==
    \/ /\ Len(logs) < IsolationRuns
       /\ ApiDiscoverEvents(LastCookie, SF, "luma", 2, MinYearApi)
    \/ \E r \in IsolationAnswers : SearchStep(r)
    \/ \E r \in IsolationOutputs : ClassifyStep(r)
    \/ ClassifyFromCache
    \/ StoreStep
    \/ FinishDiscovery
    \/ \E cookie \in Cookies, event_id \in EventIds(events), watch_status \in BOOLEAN :
          /\ IsolatedLeft(cookie)
          /\ ApiToggleWatch(cookie, event_id, watch_status, TRUE)
    \/ \E cookie \in Cookies :
          /\ IsolatedLeft(cookie)
          /\ ApiGetEventsForMonth(cookie, 2, MinYearApi, <<>>, "", DefaultMinRelevance)

SpecIsolation == Init /\ [][NextIsolation]_vars

\* what get_events_for_month returns to a session for the month of the run
ShownTo(evs, w, sid) ==
    GetEventsForMonth(evs, w, sid, <<>>, 2, MinYearApi, "", DefaultMinRelevance, now)

\* the events of a result that are flagged as watched
FlaggedIds(data) == {data.events[i].id : i \in {j \in DOMAIN data.events : data.events[j].isWatched}}

\* C29: a mark or unmark call made with the session_id of one session
\* leaves what get_events_for_month returns to every other session as it
\* is, the isWatched flags and the watchedCount included; in a result an
\* event is flagged isWatched exactly when a WatchedEvent row of the
\* session and the event exists, watchedCount is the number of flagged
\* events and is at most totalEvents.
C29_WatchIsolated ==
    [][/\ ToggleAnswered =>
             \A s \in sessions' :
                 s.session_id # resp'.sid =>
                     ShownTo(events', watched', s.session_id)
                         = ShownTo(events, watched, s.session_id)
       /\ QueryAnswered /\ resp'.queried =>
             LET data == resp'.data
             IN  /\ \A i \in DOMAIN data.events :
                        data.events[i].isWatched <=>
                            WatchRows(watched', resp'.sid, data.events[i].id) # {}
                 /\ data.watchedCount = Cardinality(FlaggedIds(data))
                 /\ data.watchedCount <= data.totalEvents
      ]_vars

\* the second session is shown two events and the one that it watches,
\* while the first session watches another one
C29_EachSeesItsOwn ==
    /\ resp.op = "events"
    /\ resp.sid = 2
    /\ resp.data.totalEvents = 2
    /\ resp.data.watchedCount = 1
    /\ FlaggedIds(resp.data) = WatchedEventIds(watched, 2)
    /\ WatchedEventIds(watched, 1) # {}
    /\ WatchedEventIds(watched, 1) \cap WatchedEventIds(watched, 2) = {}

====
